---- MODULE Spec2Model ----
(***************************************************************************)
(* Order Ledger and Admin Gate of the e-commerce API.                      *)
(*                                                                         *)
(* Two specifications share the variables below:                           *)
(*   Spec      the Order Ledger: concurrent POST /api/orders requests,     *)
(*             each a chain of store round trips (Product.findById per     *)
(*             item, Order.countDocuments, order.save), interleaved with   *)
(*             the administrator's update and delete operations;           *)
(*   SpecAuth  identity provisioning, session credentials and the Admin    *)
(*             Gate (requireAdmin / validateAdminAccess).                  *)
(*                                                                         *)
(* Money is in whole currency units.  Catalog prices of the model are      *)
(* multiples of 10, so that subtotal * 0.1 is the exact integer            *)
(* subtotal \div 10 (IEEE rounding of the product is not modelled).        *)
(***************************************************************************)
EXTENDS Integers, Sequences, FiniteSets, TLC

\* ------------------------------------------------------------------ bounds
\* request slots that may be creating an order at the same time
NReq == 2
\* order creations started in one run (ObjectIds handed out)
MaxOrders == 3
\* administrator update operations in one run, next to concurrent creations
MaxAdminOps == 1
\* administrator status updates in one run of the back office
MaxDeskOps == 2
\* catalog writes in one run
MaxCatalogOps == 2
\* month changes of the wall clock in one run
MaxTicks == 1
\* session credentials in callers' hands at one time
MaxTokens == 2
\* logins that can be in flight at once
NLogin == 2

\* ------------------------------------------------------------ the absent value
\* JavaScript undefined / null, for a string, a number and a document
Undefined == "undefined"
NoNumber == 0 - 1
NoDocument == [missing |-> TRUE]

\* ---------------------------------------------------------------- variables
VARIABLES
    \* Order Ledger
    products,        \* Product collection: id -> document or NoDocument
    orders,          \* Order collection: set of documents
    nextId,          \* ObjectIds handed out so far
    monthIndex,      \* wall clock of the ledger, in months since year 0
    adminOps,        \* administrator writes so far
    pc,              \* per request slot: position in POST /api/orders
    req,             \* per request slot: the input and the handler's locals
    res,             \* per request slot: the response sent
    assigned,        \* history: the order numbers of all orders ever persisted
    \* Auth
    users,           \* User collection: set of documents
    allowedAdminEmails, \* config.allowedAdminEmails
    dbUp,            \* whether the store answers queries
    issued,          \* session credentials handed to callers, each with the days left to its exp
    login,           \* per login slot: the login request in flight
    gate,            \* the last requireAdmin decision
    reply            \* the last response of a login or of a route behind authenticate

ledgerVars == <<products, orders, nextId, monthIndex, adminOps, pc, req, res, assigned>>
authVars == <<users, allowedAdminEmails, dbUp, issued, login, gate, reply>>
vars == <<products, orders, nextId, monthIndex, adminOps, pc, req, res, assigned,
          users, allowedAdminEmails, dbUp, issued, login, gate, reply>>

Reqs == 1..NReq
Logins == 1..NLogin

\* ------------------------------------------------------------ strings
\* A decimal string is a sequence of digits.
RECURSIVE Digits(_)
Digits(n) == IF n < 10 THEN <<n>> ELSE Digits(n \div 10) \o <<n % 10>>

\* String.prototype.padStart(width, '0')
RECURSIVE padStart(_, _)
padStart(s, width) == IF Len(s) >= width THEN s ELSE padStart(<<0>> \o s, width)

\* --------------------------------------------------------------- the clock
\* new Date() of the first request: November 2026 (getMonth counts from 0)
FirstMonthIndex == 2026 * 12 + 10

\* Date.prototype.getFullYear / getMonth
getFullYear(m) == m \div 12
getMonth(m) == m % 12

\* `ORD-${date.getFullYear()}${String(date.getMonth() + 1).padStart(2, '0')}`
OrderPrefix(m) == <<"ORD-">> \o Digits(getFullYear(m)) \o padStart(Digits(getMonth(m) + 1), 2)

\* `${prefix}-${String(count + 1).padStart(6, '0')}`
OrderNumber(prefix, count) == prefix \o <<"-">> \o padStart(Digits(count + 1), 6)

\* ---------------------------------------------------------------- catalog
ProductIds == {"p1", "p2", "p3", "p4"}

InitProducts ==
    [p \in ProductIds |->
        CASE p = "p1" -> [name |-> "tee", price |-> 40, salePrice |-> NoNumber]
          [] p = "p2" -> [name |-> "coat", price |-> 80, salePrice |-> 50]
          [] p = "p3" -> [name |-> "bag", price |-> 60, salePrice |-> NoNumber]
          [] OTHER -> NoDocument]

\* Product.findById
ProductFindById(id) == products[id]

\* (mutant) the sale price is ignored
UnitPrice_ListPrice(product) == product.price

\* product.salePrice || product.price
UnitPrice(product) ==
    IF product.salePrice # NoNumber /\ product.salePrice # 0
    THEN product.salePrice ELSE product.price

\* ----------------------------------------------------------------- totals
\* (mutant) the tax rate is 5%
Tax_FivePercent(subtotal) == subtotal \div 20

\* subtotal * 0.1
Tax(subtotal) == subtotal \div 10

\* (mutant) free shipping from 100 on
ShippingCost_AtLeast(subtotal) == IF subtotal >= 100 THEN 0 ELSE 10

\* subtotal > 100 ? 0 : 10
ShippingCost(subtotal) == IF subtotal > 100 THEN 0 ELSE 10

\* (mutant) the tax is left out of the total
Total_NoTax(subtotal, tax, shippingCost) == subtotal + shippingCost

\* subtotal + tax + shippingCost
Total(subtotal, tax, shippingCost) == subtotal + tax + shippingCost

\* ------------------------------------------------------------- the inputs
\* Requests to POST /api/orders that pass createOrderSchema: the items and
\* req.user?.userId as optionalAuth leaves it.
CreateInputs ==
    { [items |-> << [productId |-> "p1", quantity |-> 1] >>, caller |-> Undefined],
      [items |-> << [productId |-> "p2", quantity |-> 2] >>, caller |-> "u1"],
      [items |-> << [productId |-> "p3", quantity |-> 1],
                    [productId |-> "p2", quantity |-> 1] >>, caller |-> Undefined],
      [items |-> << [productId |-> "p1", quantity |-> 1],
                    [productId |-> "p4", quantity |-> 1] >>, caller |-> "u1"] }

ShippingEmail == "guest@shop"

\* data.shippingAddress with the defaults create fills in
ShippingAddress == [email |-> ShippingEmail, city |-> "Kathmandu Valley",
                    state |-> "Bagmati", country |-> "Nepal"]

OrderStatuses == {"pending", "processing", "delivered", "cancelled"}
PaymentStatuses == {"pending", "paid", "failed", "refunded"}
TrackingNumbers == {"TRK1"}
Notes == {"fragile"}
PaymentIds == {Undefined, "pay1"}

\* ------------------------------------------------------------ Order store
\* (mutant) no unique index: every insert is accepted
DuplicateKey_NoIndex(orderNumber) == FALSE

\* the unique index on orderNumber: an insert of a taken number is E11000
DuplicateKey(orderNumber) == \E o \in orders : o.orderNumber = orderNumber

\* Order.countDocuments()
countDocuments == Cardinality(orders)

IdleReq == [items |-> <<>>, userId |-> Undefined, guestEmail |-> Undefined,
            id |-> 0, i |-> 0, orderItems |-> <<>>, subtotal |-> 0,
            prefix |-> <<>>, orderNumber |-> <<>>, createdAt |-> 0]

\* status: the HTTP status sent; saves: the order.save() calls the handler made
NoResponse == [status |-> 0, saves |-> 0]

\* -------------------------------------------------- POST /api/orders (create)
\* The route handler up to the first await of OrderService.create.
StartCreate(r, input) ==
    /\ pc[r] = "idle"
    /\ nextId < MaxOrders
    /\ nextId' = nextId + 1
    /\ pc' = [pc EXCEPT ![r] = "findProduct"]
    /\ req' = [req EXCEPT ![r] =
                 [IdleReq EXCEPT !.items = input.items,
                                 !.userId = input.caller,
                                 !.guestEmail = IF input.caller # Undefined THEN Undefined
                                                ELSE ShippingEmail,
                                 !.id = nextId + 1,
                                 !.i = 1]]
    /\ res' = [res EXCEPT ![r] = NoResponse]
    /\ UNCHANGED <<products, orders, monthIndex, adminOps>>
    /\ UNCHANGED assigned
    /\ UNCHANGED authVars

\* (mutant) a missing product is skipped and the order goes on without it
FindProduct_SkipMissing(r) ==
    /\ pc[r] = "findProduct"
    /\ LET item == req[r].items[req[r].i]
           product == ProductFindById(item.productId)
           last == req[r].i = Len(req[r].items)
           lines == IF product = NoDocument THEN <<>>
                    ELSE << [product |-> item.productId, name |-> product.name,
                             price |-> UnitPrice(product), quantity |-> item.quantity] >>
           amount == IF product = NoDocument THEN 0 ELSE UnitPrice(product) * item.quantity
       IN /\ req' = [req EXCEPT ![r].orderItems = @ \o lines,
                                ![r].subtotal = @ + amount,
                                ![r].i = @ + 1,
                                ![r].prefix = IF last THEN OrderPrefix(monthIndex) ELSE @]
          /\ pc' = [pc EXCEPT ![r] = IF last THEN "count" ELSE "findProduct"]
          /\ res' = res
    /\ UNCHANGED <<products, orders, nextId, monthIndex, adminOps>>
    /\ UNCHANGED assigned
    /\ UNCHANGED authVars

\* One turn of the item loop: Product.findById answers.  After the last item
\* the handler computes the totals, reads the date and asks for the count.
FindProduct(r) ==
    /\ pc[r] = "findProduct"
    /\ LET item == req[r].items[req[r].i]
           product == ProductFindById(item.productId)
       IN IF product = NoDocument
          THEN \* throw new Error('Product not found'): errorHandler's default
               /\ pc' = [pc EXCEPT ![r] = "idle"]
               /\ res' = [res EXCEPT ![r] = [status |-> 500, saves |-> 0]]
               /\ req' = [req EXCEPT ![r] = IdleReq]
          ELSE LET price == UnitPrice(product)
                   line == [product |-> item.productId, name |-> product.name,
                            price |-> price, quantity |-> item.quantity]
                   last == req[r].i = Len(req[r].items)
               IN /\ req' = [req EXCEPT ![r].orderItems = @ \o <<line>>,
                                        ![r].subtotal = @ + price * item.quantity,
                                        ![r].i = @ + 1,
                                        ![r].prefix = IF last THEN OrderPrefix(monthIndex)
                                                      ELSE @]
                  /\ pc' = [pc EXCEPT ![r] = IF last THEN "count" ELSE "findProduct"]
                  /\ res' = res
    /\ UNCHANGED <<products, orders, nextId, monthIndex, adminOps>>
    /\ UNCHANGED assigned
    /\ UNCHANGED authVars

\* Order.countDocuments() answers; the order number is derived from it and
\* order.save() is called, which stamps createdAt (timestamps: true) with the
\* clock, kept to the month.
CountOrders(r) ==
    /\ pc[r] = "count"
    /\ req' = [req EXCEPT ![r].orderNumber = OrderNumber(req[r].prefix, countDocuments),
                          ![r].createdAt = monthIndex]
    /\ pc' = [pc EXCEPT ![r] = "save"]
    /\ UNCHANGED <<products, orders, nextId, monthIndex, adminOps, res>>
    /\ UNCHANGED assigned
    /\ UNCHANGED authVars

\* new Order({...}) with the schema's defaults
NewOrder(q) ==
    [id |-> q.id,
     orderNumber |-> q.orderNumber,
     user |-> q.userId,
     guestEmail |-> q.guestEmail,
     items |-> q.orderItems,
     shippingAddress |-> ShippingAddress,
     subtotal |-> q.subtotal,
     tax |-> Tax(q.subtotal),
     shippingCost |-> ShippingCost(q.subtotal),
     total |-> Total(q.subtotal, Tax(q.subtotal), ShippingCost(q.subtotal)),
     status |-> "pending",
     paymentStatus |-> "pending",
     paymentId |-> Undefined,
     trackingNumber |-> Undefined,
     notes |-> Undefined,
     createdAt |-> q.createdAt]

\* order.save() answers: inserted (201), or E11000 from the unique index,
\* which the handler does not catch and errorHandler turns into 409.  Either
\* way the request is over.
SaveOrder(r) ==
    /\ pc[r] = "save"
    /\ pc' = [pc EXCEPT ![r] = "idle"]
    /\ req' = [req EXCEPT ![r] = IdleReq]
    /\ IF DuplicateKey(req[r].orderNumber)
       THEN /\ orders' = orders
            /\ res' = [res EXCEPT ![r] = [status |-> 409, saves |-> 1]]
       ELSE /\ orders' = orders \cup {NewOrder(req[r])}
            /\ res' = [res EXCEPT ![r] = [status |-> 201, saves |-> 1]]
    /\ assigned' = IF DuplicateKey(req[r].orderNumber) THEN assigned
                   ELSE assigned \cup {req[r].orderNumber}
    /\ UNCHANGED <<products, nextId, monthIndex, adminOps>>
    /\ UNCHANGED authVars

\* ------------------------------------------------ administrator operations
\* Order.findByIdAndUpdate(id, { $set: update })
\* (mutant) the writer saves back the copy it read when the order was new
findByIdAndUpdate_Replace(id, field, value) ==
    {IF o.id = id
     THEN [[o EXCEPT !.status = "pending", !.paymentStatus = "pending",
                     !.paymentId = Undefined, !.trackingNumber = Undefined,
                     !.notes = Undefined] EXCEPT ![field] = value]
     ELSE o : o \in orders}

findByIdAndUpdate(id, field, value) ==
    {IF o.id = id THEN [o EXCEPT ![field] = value] ELSE o : o \in orders}

\* (mutant) a delivered or cancelled order is final
updateStatus_Final(id, status) ==
    /\ \A o \in orders : o.id = id => o.status \notin {"delivered", "cancelled"}
    /\ orders' = findByIdAndUpdate(id, "status", status)
    /\ adminOps' = adminOps + 1
    /\ UNCHANGED <<products, nextId, monthIndex, pc, req, res>>
    /\ UNCHANGED assigned
    /\ UNCHANGED authVars

updateStatus(id, status) ==
    /\ orders' = findByIdAndUpdate(id, "status", status)
    /\ adminOps' = adminOps + 1
    /\ UNCHANGED <<products, nextId, monthIndex, pc, req, res>>
    /\ UNCHANGED assigned
    /\ UNCHANGED authVars

updatePaymentStatus(id, paymentStatus, paymentId) ==
    /\ orders' = {IF o.id = id
                  THEN [o EXCEPT !.paymentStatus = paymentStatus,
                                 !.paymentId = IF paymentId # Undefined
                                               THEN paymentId ELSE @]
                  ELSE o : o \in orders}
    /\ adminOps' = adminOps + 1
    /\ UNCHANGED <<products, nextId, monthIndex, pc, req, res>>
    /\ UNCHANGED assigned
    /\ UNCHANGED authVars

\* (mutant) attaching a tracking number also ships the order
addTrackingNumber_Ships(id, trackingNumber) ==
    /\ orders' = {IF o.id = id
                  THEN [o EXCEPT !.trackingNumber = trackingNumber, !.status = "shipped"]
                  ELSE o : o \in orders}
    /\ adminOps' = adminOps + 1
    /\ UNCHANGED <<products, nextId, monthIndex, pc, req, res>>
    /\ UNCHANGED assigned
    /\ UNCHANGED authVars

addTrackingNumber(id, trackingNumber) ==
    /\ orders' = findByIdAndUpdate(id, "trackingNumber", trackingNumber)
    /\ adminOps' = adminOps + 1
    /\ UNCHANGED <<products, nextId, monthIndex, pc, req, res>>
    /\ UNCHANGED assigned
    /\ UNCHANGED authVars

addNote(id, note) ==
    /\ orders' = findByIdAndUpdate(id, "notes", note)
    /\ adminOps' = adminOps + 1
    /\ UNCHANGED <<products, nextId, monthIndex, pc, req, res>>
    /\ UNCHANGED assigned
    /\ UNCHANGED authVars

\* Order.findByIdAndDelete(id)
delete(id) ==
    /\ orders' = {o \in orders : o.id # id}
    /\ UNCHANGED <<products, nextId, monthIndex, adminOps, pc, req, res>>
    /\ UNCHANGED assigned
    /\ UNCHANGED authVars

\* The calendar month changes.
MonthTick ==
    /\ monthIndex < FirstMonthIndex + MaxTicks
    /\ monthIndex' = monthIndex + 1
    /\ UNCHANGED <<products, orders, nextId, adminOps, pc, req, res>>
    /\ UNCHANGED assigned
    /\ UNCHANGED authVars

\* ----------------------------------------------------------- order reads
\* .populate('items.product', 'name slug'): the reference becomes the
\* product as it is now, or null once the product is gone; the line's own
\* name and price stay as stored.
populate(line) ==
    [line EXCEPT !.product = IF ProductFindById(line.product) = NoDocument
                             THEN NoDocument
                             ELSE [id |-> line.product,
                                   name |-> ProductFindById(line.product).name]]

\* (mutant) the lines are read through the reference: name and price are
\* the product's as it is now
OrderFindById_LiveLines(id) ==
    IF \E o \in orders : o.id = id
    THEN LET o == CHOOSE o \in orders : o.id = id
             live(line) == IF ProductFindById(line.product) = NoDocument
                           THEN [line EXCEPT !.name = Undefined, !.price = 0]
                           ELSE [line EXCEPT !.name = ProductFindById(line.product).name,
                                             !.price = UnitPrice(ProductFindById(line.product))]
         IN [o EXCEPT !.items = [k \in DOMAIN o.items |-> populate(live(o.items[k]))]]
    ELSE NoDocument

\* OrderService.findById
OrderFindById(id) ==
    IF \E o \in orders : o.id = id
    THEN LET o == CHOOSE o \in orders : o.id = id
         IN [o EXCEPT !.items = [k \in DOMAIN o.items |-> populate(o.items[k])]]
    ELSE NoDocument

\* OrderService.findByOrderNumber
findByOrderNumber(orderNumber) ==
    IF \E o \in orders : o.orderNumber = orderNumber
    THEN LET o == CHOOSE o \in orders : o.orderNumber = orderNumber
         IN [o EXCEPT !.items = [k \in DOMAIN o.items |-> populate(o.items[k])]]
    ELSE NoDocument

\* (mutant) the amount is shown too
TrackingInfo_WithTotal(order) ==
    [orderNumber |-> order.orderNumber, status |-> order.status,
     paymentStatus |-> order.paymentStatus, trackingNumber |-> order.trackingNumber,
     createdAt |-> order.createdAt, total |-> order.total]

\* the limited info for public tracking
TrackingInfo(order) ==
    [orderNumber |-> order.orderNumber, status |-> order.status,
     paymentStatus |-> order.paymentStatus, trackingNumber |-> order.trackingNumber,
     createdAt |-> order.createdAt]

\* GET /api/orders/track/:orderNumber
GetTrack(orderNumber) ==
    LET order == findByOrderNumber(orderNumber)
    IN IF order = NoDocument
       THEN [status |-> 404, body |-> [error |-> "Order not found"]]
       ELSE [status |-> 200, body |-> TrackingInfo(order)]

\* ------------------------------------------------------------------ stats
\* (mutant) revenue counts the delivered orders
RevenueMatch_Delivered(o) == o.status = "delivered"

\* { $match: { paymentStatus: 'paid' } }
RevenueMatch(o) == o.paymentStatus = "paid"

\* { $sum: '$total' } over a group
RECURSIVE SumTotal(_)
SumTotal(group) ==
    IF group = {} THEN 0
    ELSE LET o == CHOOSE o \in group : TRUE
         IN o.total + SumTotal(group \ {o})

\* Order.aggregate([$match, $group]): no document when nothing matches
Aggregate(collection) ==
    LET group == {o \in collection : RevenueMatch(o)}
    IN IF group = {} THEN <<>> ELSE << [total |-> SumTotal(group)] >>

\* revenueResult[0]?.total || 0
TotalRevenue(revenueResult) ==
    IF Len(revenueResult) = 0 THEN 0
    ELSE IF revenueResult[1].total = 0 THEN 0
    ELSE revenueResult[1].total

\* OrderService.getStats, its five queries answered from one state
getStats ==
    [totalOrders |-> countDocuments,
     totalRevenue |-> TotalRevenue(Aggregate(orders)),
     pendingOrders |-> Cardinality({o \in orders : o.status = "pending"}),
     processingOrders |-> Cardinality({o \in orders : o.status = "processing"}),
     deliveredOrders |-> Cardinality({o \in orders : o.status = "delivered"})]

\* ----------------------------------------------------------- catalog writes
\* Bodies of PUT /api/products/:id, one field each (the other fields absent).
ProductBodies ==
    { [name |-> "cap", price |-> NoNumber, salePrice |-> NoNumber],
      [name |-> Undefined, price |-> 70, salePrice |-> NoNumber],
      [name |-> Undefined, price |-> 0, salePrice |-> NoNumber],
      [name |-> Undefined, price |-> NoNumber, salePrice |-> 30],
      [name |-> Undefined, price |-> NoNumber, salePrice |-> 0] }

\* (mutant) zero passes, as the model's min: 0 would let it
productSchema_NonNegative(body) ==
    /\ body.name # ""
    /\ body.price = NoNumber \/ body.price >= 0
    /\ body.salePrice = NoNumber \/ body.salePrice >= 0

\* productSchema.partial().parse: name z.string().min(1), price and salePrice
\* z.number().positive(), each optional; FALSE stands for the ZodError.
productSchema(body) ==
    /\ body.name # ""
    /\ body.price = NoNumber \/ body.price > 0
    /\ body.salePrice = NoNumber \/ body.salePrice > 0

\* { $set: updateData }: the fields the body has
SetFields(product, body) ==
    [name |-> IF body.name # Undefined THEN body.name ELSE product.name,
     price |-> IF body.price # NoNumber THEN body.price ELSE product.price,
     salePrice |-> IF body.salePrice # NoNumber THEN body.salePrice ELSE product.salePrice]

\* PUT /api/products/:id: 400 for a body the schema refuses, 404 for a
\* product that is not there, else ProductService.update.
PutProduct(id, body) ==
    /\ products' = IF productSchema(body) /\ ProductFindById(id) # NoDocument
                   THEN [products EXCEPT ![id] = SetFields(products[id], body)]
                   ELSE products
    /\ adminOps' = adminOps + 1
    /\ UNCHANGED <<orders, nextId, monthIndex, pc, req, res>>
    /\ UNCHANGED assigned
    /\ UNCHANGED authVars

\* DELETE /api/products/:id: ProductService.delete, 404 if it is not there
DeleteProduct(id) ==
    /\ products' = [products EXCEPT ![id] = NoDocument]
    /\ adminOps' = adminOps + 1
    /\ UNCHANGED <<orders, nextId, monthIndex, pc, req, res>>
    /\ UNCHANGED assigned
    /\ UNCHANGED authVars


\* ==================================================================== Auth
\* ------------------------------------------------------------------ emails
\* An email is a sequence of characters; the model's alphabet has one letter
\* in both cases and one in lower case only.
LowerChar(c) == IF c = "A" THEN "a" ELSE c

\* (mutant) the email is used as the provider spelled it
toLowerCase_AsIs(s) == s

\* String.prototype.toLowerCase
toLowerCase(s) == [i \in DOMAIN s |-> LowerChar(s[i])]

\* Verified assertions of the identity provider (GoogleUserInfo).
GoogleUsers ==
    { [email |-> <<"a">>, name |-> "Ann", picture |-> "pic1", sub |-> "g-a"],
      [email |-> <<"A">>, name |-> "Ann", picture |-> Undefined, sub |-> "g-a"],
      [email |-> <<"b">>, name |-> "Bob", picture |-> Undefined, sub |-> "g-b"] }

\* Values of ALLOWED_ADMIN_EMAILS after split, trim and toLowerCase.
AllowLists == {{}, {<<"a">>}}

\* (mutant) every email counts as an administrator's
isAdminEmail_Always(email) == TRUE

\* AuthService.isAdminEmail
isAdminEmail(email) == toLowerCase(email) \in allowedAdminEmails

\* ------------------------------------------------------------- User store
\* User.findOne({ email })
UserFindOne(email) ==
    IF \E u \in users : u.email = email
    THEN CHOOSE u \in users : u.email = email
    ELSE NoDocument

\* User.findById
UserFindById(id) ==
    IF \E u \in users : u.id = id
    THEN CHOOSE u \in users : u.id = id
    ELSE NoDocument

\* ------------------------------------------------------- session credentials
\* config.jwtExpiresIn = '7d', in days
JwtExpiresIn == 7

\* AuthService.generateToken: the payload, signed with exp = now + 7d.  The
\* model keeps exp relative to the clock: ttl is the days left until exp.
generateToken(user) ==
    [userId |-> user.id, email |-> user.email, role |-> user.role, ttl |-> JwtExpiresIn]

NoPayload == [missing |-> TRUE]
\* no credential in this place of the request
NoCredential == [payload |-> NoPayload, sig |-> "absent"]

\* What a caller can put in a request: a credential it was handed, the same
\* with another role and hence a signature that does not match, or a string
\* that is not a JWT.
Credentials ==
    {[payload |-> t, sig |-> "ok"] : t \in issued}
        \cup {[payload |-> [t EXCEPT !.role = "admin"], sig |-> "bad"] : t \in issued}
        \cup {[payload |-> NoPayload, sig |-> "malformed"]}

\* (mutant) the verified role is read from the identity record
verifyToken_FromStore(token) ==
    IF token.sig = "ok" /\ token.payload.ttl > 0
    THEN LET user == UserFindById(token.payload.userId)
         IN [ok |-> TRUE,
             payload |-> IF user = NoDocument THEN token.payload
                         ELSE [token.payload EXCEPT !.role = user.role]]
    ELSE [ok |-> FALSE, payload |-> NoPayload]

\* AuthService.verifyToken: jwt.verify checks shape, signature and expiry and
\* reads no store state; ok = FALSE stands for the Error it throws.
verifyToken(token) ==
    IF token.sig = "ok" /\ token.payload.ttl > 0
    THEN [ok |-> TRUE, payload |-> token.payload]
    ELSE [ok |-> FALSE, payload |-> NoPayload]

\* (mutant) the embedded role is trusted; no live re-check
validateAdminAccess_TrustToken(token) ==
    LET v == verifyToken(token)
    IN IF v.ok /\ v.payload.role = "admin"
       THEN [isAdmin |-> TRUE, user |-> UserFindById(v.payload.userId)]
       ELSE [isAdmin |-> FALSE, user |-> NoDocument]

\* (mutant) a failing store lookup lets the request through
validateAdminAccess_FailOpen(token) ==
    LET v == verifyToken(token)
        denied == [isAdmin |-> FALSE, user |-> NoDocument]
    IN IF ~v.ok THEN denied
       ELSE IF v.payload.role # "admin" THEN denied
       ELSE IF ~dbUp THEN [isAdmin |-> TRUE, user |-> NoDocument]
       ELSE LET user == UserFindById(v.payload.userId)
            IN IF user = NoDocument \/ user.role # "admin" THEN denied
               ELSE IF ~isAdminEmail(user.email) THEN denied
               ELSE [isAdmin |-> TRUE, user |-> user]

\* AuthService.validateAdminAccess.  Every throw inside (verifyToken's, or
\* User.findById's when the store does not answer) lands in the catch that
\* returns { isAdmin: false }.
validateAdminAccess(token) ==
    LET v == verifyToken(token)
        denied == [isAdmin |-> FALSE, user |-> NoDocument]
    IN IF ~v.ok THEN denied
       ELSE IF v.payload.role # "admin" THEN denied
       ELSE IF ~dbUp THEN denied
       ELSE LET user == UserFindById(v.payload.userId)
            IN IF user = NoDocument \/ user.role # "admin" THEN denied
               ELSE IF ~isAdminEmail(user.email) THEN denied
               ELSE [isAdmin |-> TRUE, user |-> user]

\* (mutant) the Bearer header is looked at first
getToken_HeaderFirst(request) ==
    IF request.bearer # NoCredential THEN request.bearer
    ELSE IF request.cookie # NoCredential THEN request.cookie
    ELSE NoCredential

\* getToken: the auth_token cookie, else the Bearer header, else null
getToken(request) ==
    IF request.cookie # NoCredential THEN request.cookie
    ELSE IF request.bearer # NoCredential THEN request.bearer
    ELSE NoCredential

\* Requests with the credential in the cookie, in the header, or nowhere.
AdminRequests ==
    {[cookie |-> c, bearer |-> NoCredential] : c \in Credentials}
        \cup {[cookie |-> NoCredential, bearer |-> c] : c \in Credentials}
        \cup {[cookie |-> NoCredential, bearer |-> NoCredential]}

\* Requests that may carry a credential in the cookie and one in the header.
Requests ==
    {[cookie |-> c, bearer |-> b] : c, b \in Credentials \cup {NoCredential}}

NoGate == [missing |-> TRUE]
NoLogin == [missing |-> TRUE]
NoReply == [missing |-> TRUE]

\* requireAdmin: 401 without a token, 403 unless validateAdminAccess says
\* isAdmin, else next() and the protected handler runs.
requireAdmin(request) ==
    LET token == getToken(request)
    IN IF token = NoCredential
       THEN [request |-> request, status |-> 401, next |-> FALSE]
       ELSE IF ~validateAdminAccess(token).isAdmin
            THEN [request |-> request, status |-> 403, next |-> FALSE]
            ELSE [request |-> request, status |-> 200, next |-> TRUE]

\* A request reaches an admin route; gate holds the decision until the next
\* step of the system.
RequireAdmin(request) ==
    /\ gate' = requireAdmin(request)
    /\ reply' = NoReply
    /\ UNCHANGED <<users, allowedAdminEmails, dbUp, issued, login>>
    /\ UNCHANGED ledgerVars

\* authenticate: 401 without a token or when verifyToken throws, else
\* req.user is the payload and next() runs the handler.
authenticate(request) ==
    LET token == getToken(request)
        v == verifyToken(token)
    IN IF token = NoCredential \/ ~v.ok
       THEN [status |-> 401, next |-> FALSE, user |-> NoPayload]
       ELSE [status |-> 200, next |-> TRUE, user |-> v.payload]

\* (mutant) a credential that does not verify is answered 401
optionalAuth_Strict(request) == authenticate(request)

\* optionalAuth: req.user is the payload if a token is there and verifies;
\* next() runs the handler in every case.
optionalAuth(request) ==
    LET token == getToken(request)
        v == verifyToken(token)
    IN IF token # NoCredential /\ v.ok
       THEN [status |-> 200, next |-> TRUE, user |-> v.payload]
       ELSE [status |-> 200, next |-> TRUE, user |-> NoPayload]

\* (mutant) the route validates the token getToken finds
validateAdminRoute_AnyCarrier(request) ==
    IF ~authenticate(request).next
    THEN [status |-> 401, isAdmin |-> FALSE]
    ELSE IF ~validateAdminAccess(getToken(request)).isAdmin
         THEN [status |-> 403, isAdmin |-> FALSE]
         ELSE [status |-> 200, isAdmin |-> TRUE]

\* GET /validate-admin: behind authenticate, then validateAdminAccess on the
\* Authorization header's token ('' without a header), 403 unless isAdmin.
validateAdminRoute(request) ==
    IF ~authenticate(request).next
    THEN [status |-> 401, isAdmin |-> FALSE]
    ELSE IF ~validateAdminAccess(request.bearer).isAdmin
         THEN [status |-> 403, isAdmin |-> FALSE]
         ELSE [status |-> 200, isAdmin |-> TRUE]

\* A request reaches a route behind authenticate (GET /me).
Authenticate(request) ==
    /\ reply' = [route |-> "me", request |-> request] @@ authenticate(request)
    /\ gate' = NoGate
    /\ UNCHANGED <<users, allowedAdminEmails, dbUp, issued, login>>
    /\ UNCHANGED ledgerVars

\* A request passes optionalAuth on its way to a public handler.
OptionalAuth(request) ==
    /\ reply' = [route |-> "public", request |-> request] @@ optionalAuth(request)
    /\ gate' = NoGate
    /\ UNCHANGED <<users, allowedAdminEmails, dbUp, issued, login>>
    /\ UNCHANGED ledgerVars

\* A request reaches GET /validate-admin.
ValidateAdmin(request) ==
    /\ reply' = [route |-> "validate-admin", request |-> request]
                    @@ validateAdminRoute(request)
    /\ gate' = NoGate
    /\ UNCHANGED <<users, allowedAdminEmails, dbUp, issued, login>>
    /\ UNCHANGED ledgerVars

\* req.user?.userId of a request that has passed optionalAuth
Caller(request) ==
    LET user == optionalAuth(request).user
    IN IF user = NoPayload THEN Undefined ELSE ToString(user.userId)

\* The body of a POST /api/orders from the shop's checkout.
CheckoutItems == << [productId |-> "p1", quantity |-> 1] >>

\* POST /api/orders with its middleware: optionalAuth, then the handler
\* with req.user as optionalAuth left it.
PostOrder(r, items, request) ==
    /\ optionalAuth(request).next
    /\ StartCreate(r, [items |-> items, caller |-> Caller(request)])

\* ------------------------------------------------- POST /api/auth/google
\* findOrCreateUser up to its first await: User.findOne answers.
LoginFind(l, googleUser) ==
    /\ login[l] = NoLogin
    /\ dbUp
    /\ Cardinality(issued) < MaxTokens
    /\ login' = [login EXCEPT ![l] =
                    [googleUser |-> googleUser,
                     user |-> UserFindOne(toLowerCase(googleUser.email))]]
    /\ gate' = NoGate
    /\ reply' = NoReply
    /\ UNCHANGED <<users, allowedAdminEmails, dbUp, issued>>
    /\ UNCHANGED ledgerVars

\* (mutant) the role follows the allow-list both ways
SyncedUser_Demote(user, googleUser) ==
    LET synced == [user EXCEPT !.role = IF isAdminEmail(googleUser.email)
                                        THEN "admin" ELSE "customer"]
    IN IF googleUser.picture # Undefined /\ synced.picture # googleUser.picture
       THEN [synced EXCEPT !.picture = googleUser.picture] ELSE synced

\* The user as findOrCreateUser leaves it in memory: promoted if the email
\* is on the allow-list, picture refreshed if the provider's differs.
SyncedUser(user, googleUser) ==
    LET promoted == IF isAdminEmail(googleUser.email) /\ user.role # "admin"
                    THEN [user EXCEPT !.role = "admin"] ELSE user
    IN IF googleUser.picture # Undefined /\ promoted.picture # googleUser.picture
       THEN [promoted EXCEPT !.picture = googleUser.picture] ELSE promoted

\* The rest of findOrCreateUser and generateToken: User.create for a new
\* email, user.save() for a changed role or picture, then the credential.
\* A write the store refuses (it is down, or the email is taken) throws and
\* no credential is issued: POST /google/callback answers 500 from its catch
\* (POST /google leaves the error to errorHandler).
LoginFinish(l) ==
    /\ login[l] # NoLogin
    /\ gate' = NoGate
    /\ login' = [login EXCEPT ![l] = NoLogin]
    /\ LET g == login[l].googleUser
           email == toLowerCase(g.email)
           found == login[l].user
           created == [id |-> Cardinality(users) + 1, email |-> email,
                       name |-> g.name, picture |-> g.picture,
                       googleId |-> g.sub,
                       role |-> IF isAdminEmail(g.email) THEN "admin" ELSE "customer"]
           user == IF found = NoDocument THEN created ELSE SyncedUser(found, g)
           written == IF found = NoDocument
                      THEN dbUp /\ UserFindOne(email) = NoDocument
                      ELSE user = found \/ dbUp
       IN IF written
          THEN /\ users' = IF found = NoDocument THEN users \cup {user}
                           ELSE {IF u.id = user.id
                                 THEN [u EXCEPT !.role = user.role,
                                                !.picture = user.picture]
                                 ELSE u : u \in users}
               /\ issued' = issued \cup {generateToken(user)}
               /\ reply' = [route |-> "google", status |-> 200, userId |-> user.id]
          ELSE /\ UNCHANGED <<users, issued>>
               /\ reply' = [route |-> "google", status |-> 500, userId |-> 0]
    /\ UNCHANGED <<allowedAdminEmails, dbUp>>
    /\ UNCHANGED ledgerVars

\* ------------------------------------------------------------ environment
\* The process restarts with another ALLOWED_ADMIN_EMAILS; requests in
\* flight are dropped, credentials stay valid (same jwtSecret).
ReloadConfig(list) ==
    /\ list # allowedAdminEmails
    /\ allowedAdminEmails' = list
    /\ login' = [l \in Logins |-> NoLogin]
    /\ gate' = NoGate
    /\ reply' = NoReply
    /\ UNCHANGED <<users, dbUp, issued>>
    /\ UNCHANGED ledgerVars

\* The store stops answering / answers again.
StoreDown ==
    /\ dbUp
    /\ dbUp' = FALSE
    /\ gate' = NoGate
    /\ reply' = NoReply
    /\ UNCHANGED <<users, allowedAdminEmails, issued, login>>
    /\ UNCHANGED ledgerVars

StoreUp ==
    /\ ~dbUp
    /\ dbUp' = TRUE
    /\ gate' = NoGate
    /\ reply' = NoReply
    /\ UNCHANGED <<users, allowedAdminEmails, issued, login>>
    /\ UNCHANGED ledgerVars

\* A day passes: every credential is a day closer to its exp; past exp it
\* stays expired.
DayTick ==
    /\ \E t \in issued : t.ttl > 0
    /\ issued' = {[t EXCEPT !.ttl = IF @ > 0 THEN @ - 1 ELSE 0] : t \in issued}
    /\ gate' = NoGate
    /\ reply' = NoReply
    /\ UNCHANGED <<users, allowedAdminEmails, dbUp, login>>
    /\ UNCHANGED ledgerVars

\* -------------------------------------------------------------------- Init
InitLedger ==
    /\ products = InitProducts
    /\ orders = {}
    /\ nextId = 0
    /\ monthIndex = FirstMonthIndex
    /\ adminOps = 0
    /\ pc = [r \in Reqs |-> "idle"]
    /\ req = [r \in Reqs |-> IdleReq]
    /\ res = [r \in Reqs |-> NoResponse]
    /\ assigned = {}

InitAuth ==
    /\ users = {}
    /\ allowedAdminEmails = {}
    /\ dbUp = TRUE
    /\ issued = {}
    /\ login = [l \in Logins |-> NoLogin]
    /\ gate = NoGate
    /\ reply = NoReply

Init == InitLedger /\ InitAuth

Next ==
    \/ \E r \in Reqs, input \in CreateInputs : StartCreate(r, input)
    \/ \E r \in Reqs : FindProduct(r)
    \/ \E r \in Reqs : CountOrders(r)
    \/ \E r \in Reqs : SaveOrder(r)
    \/ adminOps < MaxAdminOps /\ \E o \in orders, s \in OrderStatuses : updateStatus(o.id, s)
    \/ adminOps < MaxAdminOps /\ \E o \in orders, s \in PaymentStatuses, p \in PaymentIds :
                                     updatePaymentStatus(o.id, s, p)
    \/ adminOps < MaxAdminOps /\ \E o \in orders, t \in TrackingNumbers : addTrackingNumber(o.id, t)
    \/ adminOps < MaxAdminOps /\ \E o \in orders, n \in Notes : addNote(o.id, n)
    \/ \E o \in orders : delete(o.id)
    \/ MonthTick

Spec == Init /\ [][Next]_vars

\* One request slot creates orders, one after the other.
SerialCreate ==
    \/ \E input \in CreateInputs : StartCreate(1, input)
    \/ FindProduct(1)
    \/ CountOrders(1)
    \/ SaveOrder(1)

\* The catalog changes under the ledger.
NextCatalog ==
    \/ SerialCreate
    \/ adminOps < MaxCatalogOps /\ \E id \in ProductIds, body \in ProductBodies : PutProduct(id, body)
    \/ adminOps < MaxCatalogOps /\ \E id \in ProductIds : DeleteProduct(id)

SpecCatalog == Init /\ [][NextCatalog]_vars

\* The back office: the administrator moves orders through their statuses
\* and payment statuses (bodies without a paymentId).
NextDesk ==
    \/ SerialCreate
    \/ adminOps < MaxDeskOps /\ \E o \in orders, s \in OrderStatuses : updateStatus(o.id, s)
    \/ adminOps < MaxDeskOps /\ \E o \in orders, s \in PaymentStatuses :
                                    updatePaymentStatus(o.id, s, Undefined)

SpecDesk == Init /\ [][NextDesk]_vars

\* The administrator's four update operations on orders of one line, of a
\* guest and of a signed-in caller.
NextUpdates ==
    \/ \E input \in {i \in CreateInputs : Len(i.items) = 1} : StartCreate(1, input)
    \/ FindProduct(1)
    \/ CountOrders(1)
    \/ SaveOrder(1)
    \/ adminOps < MaxDeskOps /\ \E o \in orders, s \in OrderStatuses : updateStatus(o.id, s)
    \/ adminOps < MaxDeskOps /\ \E o \in orders, s \in PaymentStatuses, p \in PaymentIds :
                                    updatePaymentStatus(o.id, s, p)
    \/ adminOps < MaxDeskOps /\ \E o \in orders, t \in TrackingNumbers : addTrackingNumber(o.id, t)
    \/ adminOps < MaxDeskOps /\ \E o \in orders, n \in Notes : addNote(o.id, n)

SpecUpdates == Init /\ [][NextUpdates]_vars

\* Orders are created one after the other and deleted, over a month change.
NextArchive ==
    \/ SerialCreate
    \/ \E o \in orders : delete(o.id)
    \/ MonthTick

SpecArchive == Init /\ [][NextArchive]_vars

NextAuth ==
    \/ \E g \in GoogleUsers : LoginFind(1, g)
    \/ LoginFinish(1)
    \/ \E request \in AdminRequests : RequireAdmin(request)
    \/ \E list \in AllowLists : ReloadConfig(list)
    \/ StoreDown
    \/ StoreUp
    \/ DayTick

SpecAuth == Init /\ [][NextAuth]_vars

\* Sessions: within the lifetime of their credentials, requests with cookie
\* and header credentials meet the three middlewares and GET /validate-admin.
NextSession ==
    \/ \E g \in GoogleUsers : LoginFind(1, g)
    \/ LoginFinish(1)
    \/ \E request \in Requests : RequireAdmin(request)
    \/ \E request \in Requests : Authenticate(request)
    \/ \E request \in Requests : OptionalAuth(request)
    \/ \E request \in Requests : ValidateAdmin(request)
    \/ \E list \in AllowLists : ReloadConfig(list)
    \/ StoreDown
    \/ StoreUp

SpecSession == Init /\ [][NextSession]_vars

\* Checkout: callers sign in, credentials age, and orders are placed with
\* whatever credential the request carries, in the cookie or in the header.
NextCheckout ==
    \/ \E g \in GoogleUsers : LoginFind(1, g)
    \/ LoginFinish(1)
    \/ DayTick
    \/ \E request \in AdminRequests : PostOrder(1, CheckoutItems, request)
    \/ FindProduct(1)
    \/ CountOrders(1)
    \/ SaveOrder(1)

SpecCheckout == Init /\ [][NextCheckout]_vars

\* Logins run concurrently on every login slot.
NextLogin ==
    \/ \E l \in Logins, g \in GoogleUsers : LoginFind(l, g)
    \/ \E l \in Logins : LoginFinish(l)

SpecLogin == Init /\ [][NextLogin]_vars

\* ================================================================ claims
\* ---------------------------------------------------------------- ledger
\* C1: concurrent order creations all complete successfully: no creation
\* whose products exist is answered with a duplicate-key conflict, so N
\* creations leave N orders with N distinct numbers.
C1_ConcurrentCreatesAllSucceed ==
    \A r \in Reqs : res[r].saves > 0 => res[r].status = 201

\* C2: no two persisted orders have the same order number.
C2_UniqueOrderNumbers ==
    \A o1, o2 \in orders : o1.orderNumber = o2.orderNumber => o1 = o2

\* two orders persisted, one of them updated by the administrator, and an
\* insert of a taken number turned away
C2_Witness ==
    /\ Cardinality(orders) >= 2
    /\ \E o \in orders : o.status # "pending" \/ o.trackingNumber # Undefined
    /\ \E r \in Reqs : res[r].status = 409

\* C3: a creation is answered with Conflict only after it retried the insert
\* with a freshly derived sequence, never on its first duplicate.
C3_ConflictOnlyAfterRetries ==
    \A r \in Reqs : res[r].status = 409 => res[r].saves > 1

\* C9: every persisted order satisfies total = subtotal + tax + shippingCost.
C9_TotalIsSum ==
    \A o \in orders : o.total = o.subtotal + o.tax + o.shippingCost

\* an order with a non-zero tax and shipping cost that the administrator has
\* updated since its creation
C9_Witness ==
    \E o \in orders :
        /\ o.tax > 0 /\ o.shippingCost > 0
        /\ \/ o.status # "pending" \/ o.paymentStatus # "pending"
           \/ o.trackingNumber # Undefined \/ o.notes # Undefined

\* C10: shippingCost is 0 exactly when subtotal > 100 and 10 otherwise; a
\* subtotal of exactly 100 is charged 10; subtotal 40 gives total 54 and
\* subtotal 110 gives total 121.
C10_ShippingThreshold ==
    \A o \in orders :
        /\ o.shippingCost = 0 <=> o.subtotal > 100
        /\ o.shippingCost # 0 => o.shippingCost = 10
        /\ o.subtotal = 100 => o.shippingCost = 10
        /\ o.subtotal = 40 => o.shippingCost = 10 /\ o.total = 54
        /\ o.subtotal = 110 => o.shippingCost = 0 /\ o.total = 121

\* orders of subtotal 40, 100 and 110 are all persisted
C10_Witness ==
    /\ \E o \in orders : o.subtotal = 100 /\ o.shippingCost = 10
    /\ \E o \in orders : o.subtotal = 40
    /\ \E o \in orders : o.subtotal = 110

\* the sum over the line items of price * quantity
RECURSIVE SumLines(_)
SumLines(items) ==
    IF items = <<>> THEN 0
    ELSE Head(items).price * Head(items).quantity + SumLines(Tail(items))

\* C11: for every created order, subtotal is the sum over its line items of
\* snapshotted unit price * quantity and tax is 10% of that subtotal; items
\* priced 60 and 50 give subtotal 110 and tax 11.
C11_SubtotalAndTax ==
    \A o \in orders :
        /\ o.subtotal = SumLines(o.items)
        /\ 10 * o.tax = o.subtotal
        /\ (/\ Len(o.items) = 2
            /\ o.items[1].price * o.items[1].quantity = 60
            /\ o.items[2].price * o.items[2].quantity = 50)
                => o.subtotal = 110 /\ o.tax = 11

\* the order of the scenario (60 and 50) and an order with a quantity above 1
C11_Witness ==
    /\ \E o \in orders : /\ Len(o.items) = 2
                          /\ o.items[1].price = 60 /\ o.items[2].price = 50
                          /\ o.subtotal = 110 /\ o.tax = 11
    /\ \E o \in orders : o.items[1].quantity = 2 /\ o.subtotal = 100 /\ o.tax = 10

Purchase(order) ==
    [lines |-> [k \in DOMAIN order.items |->
                   [name |-> order.items[k].name, price |-> order.items[k].price,
                    quantity |-> order.items[k].quantity]],
     subtotal |-> order.subtotal, tax |-> order.tax, total |-> order.total]

\* C13: a change of a product's price, sale price or name, or its deletion,
\* leaves every existing order's line-item names and prices, subtotal, tax
\* and total as they were.
C13_CatalogChangeLeavesOrders ==
    [][products' # products
          => \A o \in orders :
                /\ OrderFindById(o.id)' # NoDocument
                /\ Purchase(OrderFindById(o.id))' = Purchase(OrderFindById(o.id))]_vars

\* an order holds a line whose product has since been deleted, and a line
\* whose product has since got another name or price
C13_Witness ==
    /\ \E o \in orders : \E k \in DOMAIN o.items :
           ProductFindById(o.items[k].product) = NoDocument
    /\ \E o \in orders : \E k \in DOMAIN o.items :
           /\ ProductFindById(o.items[k].product) # NoDocument
           /\ \/ ProductFindById(o.items[k].product).name # o.items[k].name
              \/ UnitPrice(ProductFindById(o.items[k].product)) # o.items[k].price

\* C14: if a requested item references a product that does not exist, the
\* creation fails and persists nothing: the order collection is unchanged,
\* however many earlier items of the request were resolved.
C14_MissingProductAbortsOrder ==
    [][\A r \in Reqs :
          (/\ pc[r] = "findProduct"
           /\ req'[r] # req[r]
           /\ ProductFindById(req[r].items[req[r].i].productId) = NoDocument)
              => /\ orders' = orders
                 /\ pc'[r] = "idle"
                 /\ req'[r] = IdleReq
                 /\ res'[r].status = 500 /\ res'[r].saves = 0]_vars

\* a creation failed on its second item after the first was resolved, while
\* orders of other requests are persisted
C14_Witness ==
    /\ \E r \in Reqs : pc[r] = "idle" /\ res[r].status = 500 /\ res[r].saves = 0
    /\ orders # {}

\* C17: the public track-by-order-number response is a function of
\* orderNumber, status, paymentStatus, trackingNumber and createdAt only: an
\* order with any other stored order's line items, owner, guest email, notes
\* and amounts gets the same response as long as the five fields agree.
C17_TrackingShowsFiveFields ==
    \A o1, o2 \in orders :
        LET other == [o2 EXCEPT !.orderNumber = o1.orderNumber,
                                !.status = o1.status,
                                !.paymentStatus = o1.paymentStatus,
                                !.trackingNumber = o1.trackingNumber,
                                !.createdAt = o1.createdAt]
        IN /\ GetTrack(o1.orderNumber).status = 200
           /\ GetTrack(o1.orderNumber).body = TrackingInfo(other)

\* two tracked orders differ in line items, owner, guest email and amounts,
\* and one of them carries a note
C17_Witness ==
    \E o1, o2 \in orders :
        /\ o1.items # o2.items /\ o1.user # o2.user /\ o1.guestEmail # o2.guestEmail
        /\ o1.subtotal # o2.subtotal /\ o1.total # o2.total
        /\ o1.notes # Undefined /\ o2.notes = Undefined

Quiescent == \A r \in Reqs : pc[r] = "idle"

\* the orders of a state whose payment status is paid
PaidOrders == {o \in orders : o.paymentStatus = "paid"}

\* a step that changes the status of orders and nothing else of the ledger
SetStatusStep ==
    /\ orders' # orders
    /\ \A o \in orders : \E s \in OrderStatuses : [o EXCEPT !.status = s] \in orders'
    /\ \A o \in orders' : \E s \in OrderStatuses : [o EXCEPT !.status = s] \in orders

\* C18: in every quiescent state the revenue of getStats is the sum of total
\* over exactly the paid orders, and a setStatus operation (to delivered or
\* cancelled as to any other status) leaves that revenue unchanged.
C18_RevenueIsPaidTotals ==
    /\ [](Quiescent => getStats.totalRevenue = SumTotal(PaidOrders))
    /\ [][SetStatusStep => getStats.totalRevenue' = getStats.totalRevenue]_vars

\* quiescent, with a paid order that is cancelled or delivered next to an
\* order that is not paid
C18_Witness ==
    /\ Quiescent
    /\ \E o \in orders : /\ o.paymentStatus = "paid"
                          /\ o.status \in {"delivered", "cancelled"}
                          /\ getStats.totalRevenue = o.total
    /\ \E o \in orders : o.paymentStatus # "paid"

C20_AnyStatusFromAnyStatus ==
    \A o \in orders :
        /\ \A s \in OrderStatuses :
              ENABLED (/\ updateStatus(o.id, s)
                       /\ orders' = (orders \ {o}) \cup {[o EXCEPT !.status = s]})
        /\ \A s \in PaymentStatuses :
              ENABLED (/\ updatePaymentStatus(o.id, s, Undefined)
                       /\ orders' = (orders \ {o}) \cup {[o EXCEPT !.paymentStatus = s]})

\* the administrator's first write has taken an order from pending straight
\* to delivered
C20_Witness ==
    /\ adminOps = 1
    /\ \E o \in orders : o.status = "delivered"

\* a step of one of the administrator's update operations
UpdateStep == adminOps' = adminOps + 1

\* the fields the update operations write, and the fields one operation writes
MutableFields == {"status", "paymentStatus", "paymentId", "trackingNumber", "notes"}
UpdateSets == {{"status"}, {"paymentStatus"}, {"paymentStatus", "paymentId"},
               {"trackingNumber"}, {"notes"}}

\* C23: every administrator update is applied atomically to the stored order:
\* it replaces one order by that order with the fields of one operation
\* written and every other mutable field as stored, so any interleaving of
\* updates is a serial order, writes to different fields are both kept, and
\* a write to a field already written leaves the last writer's value.
C23_UpdatesAreSerial ==
    [][UpdateStep =>
         /\ \E o \in orders : \E n \in orders' \ (orders \ {o}), F \in UpdateSets :
               /\ orders' = (orders \ {o}) \cup {n}
               /\ \A f \in MutableFields \ F : n[f] = o[f]
         /\ \A o \in orders \ orders' :
               /\ \A s \in OrderStatuses :
                     updateStatus(o.id, s) => [o EXCEPT !.status = s] \in orders'
               /\ \A t \in TrackingNumbers :
                     addTrackingNumber(o.id, t) => [o EXCEPT !.trackingNumber = t] \in orders'
               /\ \A n \in Notes :
                     addNote(o.id, n) => [o EXCEPT !.notes = n] \in orders'
    ]_vars

\* two updates of one order, to different fields, are both in the order
C23_Witness ==
    /\ adminOps = 2
    /\ \E o \in orders : o.trackingNumber # Undefined /\ o.notes # Undefined

\* the fields of an order that are fixed at creation
CreatedFields == {"id", "orderNumber", "items", "shippingAddress", "user",
                  "guestEmail", "subtotal", "tax", "shippingCost", "total",
                  "createdAt"}

\* C24: setStatus, setPaymentStatus, attaching a tracking number and setting
\* a note leave every order's order number, line items, shipping address,
\* owner, guest email, subtotal, tax, shippingCost and total as created, and
\* attaching a tracking number leaves the status unchanged.
C24_UpdatesKeepCreatedFields ==
    [][UpdateStep =>
         /\ \A o \in orders : \E n \in orders' :
               /\ \A f \in CreatedFields : n[f] = o[f]
               /\ n.trackingNumber # o.trackingNumber => n.status = o.status
         /\ Cardinality(orders') = Cardinality(orders)
    ]_vars

\* an order of a signed-in customer with a tracking number attached is still
\* pending
C24_Witness ==
    \E o \in orders : /\ o.trackingNumber # Undefined
                       /\ o.status = "pending"
                       /\ o.user # Undefined
                       /\ o.items # <<>>

\* the field of the getStats result that counts the orders of a status
StatsField == [pending |-> "pendingOrders", processing |-> "processingOrders",
               delivered |-> "deliveredOrders", cancelled |-> "cancelledOrders"]

\* the statuses getStats returns a count for
ReportedStatuses == {s \in OrderStatuses : StatsField[s] \in DOMAIN getStats}

RECURSIVE SumCounts(_)
SumCounts(statuses) ==
    IF statuses = {} THEN 0
    ELSE LET s == CHOOSE x \in statuses : TRUE
         IN getStats[StatsField[s]] + SumCounts(statuses \ {s})

\* C25: getStats returns a count for each of pending, processing, delivered
\* and cancelled, and in a quiescent state the counts it returns sum to
\* totalOrders.
C25_StatusCountsSumToTotal ==
    Quiescent => /\ SumCounts(ReportedStatuses) = getStats.totalOrders
                 /\ ReportedStatuses = OrderStatuses

\* C26: over creates and deletes, an order that is inserted never carries an
\* order number that an earlier order was persisted with, deleted or not.
C26_NumbersNeverReused ==
    [][\A o \in orders' \ orders : o.orderNumber \notin assigned]_vars

\* C27: after any creates and deletes, a create whose products exist and
\* that runs with no other creation in flight is never answered with the
\* duplicate order number conflict.
C27_SerialCreateSucceeds ==
    \A r \in Reqs : res[r].status # 409

\* ------------------------------------------------------------------ auth
\* the credential the gate has just evaluated, and what it verifies to
GateToken == getToken(gate.request)
GateVerified == gate # NoGate /\ GateToken # NoCredential /\ verifyToken(GateToken).ok
GateSubject == UserFindById(GateToken.payload.userId)

\* an email with every letter in lower case
FoldCase(email) == [i \in DOMAIN email |-> IF email[i] = "A" THEN "a" ELSE email[i]]

\* C15: findOrCreate is idempotent on the case-folded email: calls with the
\* same assertion, or with assertions whose emails differ only in letter
\* case, find the same identity, hand out the same identity id, and leave
\* exactly one identity record for that email.
C15_FindOrCreateIdempotent ==
    /\ \A u1, u2 \in users : FoldCase(u1.email) = FoldCase(u2.email) => u1 = u2
    /\ \A t1, t2 \in issued : FoldCase(t1.email) = FoldCase(t2.email) => t1.userId = t2.userId
    /\ \A t \in issued : \E u \in users : u.id = t.userId /\ u.email = FoldCase(t.email)
    /\ login[1] # NoLogin
          => \A u \in users : u.email = FoldCase(login[1].googleUser.email) => login[1].user = u

\* a second call, whose email differs from the first call's in letter case
\* only, has found the identity the first call created and returned
C15_Witness ==
    /\ login[1] # NoLogin
    /\ login[1].googleUser.email = <<"A">>
    /\ login[1].user # NoDocument
    /\ login[1].user.email = <<"a">>
    /\ Cardinality({u \in users : FoldCase(u.email) = <<"a">>}) = 1
    /\ \E t \in issued : t.userId = login[1].user.id

\* C16: after findOrCreate returns, the stored role is admin if the email is
\* on the allow-list at that moment; otherwise a new identity is a customer
\* and an existing identity keeps the role it had (an admin removed from the
\* allow-list is not demoted).
C16_ProvisionedRole ==
    [][(/\ login[1] # NoLogin
        /\ login'[1] = NoLogin
        /\ allowedAdminEmails' = allowedAdminEmails
        /\ dbUp)
          => LET email == FoldCase(login[1].googleUser.email)
                 before == {u \in users : u.email = email}
                 after == {u \in users' : u.email = email}
             IN /\ Cardinality(after) = 1
                /\ \A u \in after :
                      IF email \in allowedAdminEmails THEN u.role = "admin"
                      ELSE IF before = {} THEN u.role = "customer"
                      ELSE \A b \in before : u.role = b.role /\ u.id = b.id]_vars

\* findOrCreate is about to return for an identity whose stored role is
\* admin and whose email is no longer on the allow-list
C16_Witness ==
    /\ login[1] # NoLogin
    /\ dbUp
    /\ login[1].user # NoDocument
    /\ login[1].user.role = "admin"
    /\ FoldCase(login[1].googleUser.email) \notin allowedAdminEmails

\* a credential as the service signed it
Signed(t) == [payload |-> t, sig |-> "ok"]

\* C21: a credential is issued with the identity's subject id, email and
\* role of that moment and seven days to live; a day takes one day off every
\* credential and no other step changes a credential; and a credential
\* verifies, to exactly the claims it was issued with, as long as days are
\* left and is rejected once none is, whatever the store holds by then and
\* whether or not it answers.
C21_CredentialLifetime ==
    /\ [](\A t \in issued :
            IF t.ttl > 0
            THEN /\ verifyToken(Signed(t)).ok
                 /\ verifyToken(Signed(t)).payload = t
            ELSE ~verifyToken(Signed(t)).ok)
    /\ [][\/ issued' = {[t EXCEPT !.ttl = IF @ > 0 THEN @ - 1 ELSE 0] : t \in issued}
          \/ /\ issued \subseteq issued'
             /\ \A t \in issued' \ issued :
                   /\ t.ttl = 7
                   /\ \E u \in users' :
                         u.id = t.userId /\ u.email = t.email /\ u.role = t.role
       ]_vars

\* seven days after it was issued a credential is rejected, its identity's
\* stored role is no longer the role it embeds, and a credential issued
\* later still verifies
C21_Witness ==
    \E t1, t2 \in issued :
        /\ t1.ttl = 0
        /\ ~verifyToken(Signed(t1)).ok
        /\ UserFindById(t1.userId) # NoDocument
        /\ UserFindById(t1.userId).role # t1.role
        /\ t2.ttl > 0
        /\ verifyToken(Signed(t2)).payload = t2

\* C22: when a request carries an auth_token cookie, with or without a Bearer
\* header next to it, the three middlewares decide on the cookie's credential
\* alone: authenticate passes exactly if the cookie verifies, requireAdmin
\* admits exactly if the cookie passes the administrator check, and
\* optionalAuth attaches the cookie's claims or none; the header is no
\* fallback.
C22_CookieTakesPrecedence ==
    /\ (gate # NoGate /\ gate.request.cookie # NoCredential)
          => /\ gate.next <=> validateAdminAccess(gate.request.cookie).isAdmin
             /\ gate.status = IF gate.next THEN 200 ELSE 403
    /\ (reply # NoReply /\ reply.route \in {"me", "public"}
                        /\ reply.request.cookie # NoCredential)
          => LET v == verifyToken(reply.request.cookie)
             IN /\ reply.user = v.payload
                /\ reply.route = "me" => reply.next = v.ok
                /\ reply.route = "me" => reply.status = IF v.ok THEN 200 ELSE 401
                /\ reply.route = "public" => reply.next

\* authenticate has answered 401 to a request whose cookie does not verify
\* and whose Bearer header does
C22_Witness ==
    /\ reply # NoReply
    /\ reply.route = "me"
    /\ reply.request.cookie # NoCredential
    /\ ~verifyToken(reply.request.cookie).ok
    /\ verifyToken(reply.request.bearer).ok
    /\ reply.status = 401

\* C29: GET /validate-admin reports isAdmin true for exactly the requests
\* that requireAdmin admits, whether the credential is in the auth_token
\* cookie or in a Bearer header.
C29_ValidateAdminAgreesWithGate ==
    (reply # NoReply /\ reply.route = "validate-admin")
        => (reply.isAdmin <=> requireAdmin(reply.request).next)

\* C28: a findOrCreate call that found no identity for its email completes
\* successfully, also when a concurrent call for the same email inserted the
\* identity in between: it returns the id of the one identity record that
\* exists for the email.
C28_ConcurrentFindOrCreate ==
    [][\A l \in Logins :
          (/\ login[l] # NoLogin
           /\ login[l].user = NoDocument
           /\ login'[l] = NoLogin
           /\ dbUp)
             => LET email == FoldCase(login[l].googleUser.email)
                IN /\ reply'.status = 200
                   /\ Cardinality({u \in users' : u.email = email}) = 1
                   /\ \A u \in users' : u.email = email => reply'.userId = u.id]_vars

\* C30: every order created through POST /api/orders has exactly one of
\* owner and guest email: the request is never turned away for its
\* credential; the order is the caller's, by the credential's subject id, if
\* the credential the request carried verifies, and a guest's, by the
\* shipping-address email, if there is none or it is forged, malformed or
\* expired.
C30_OwnerOrGuest ==
    /\ [](\A o \in orders : (o.user = Undefined) # (o.guestEmail = Undefined))
    /\ []((pc[1] = "idle" /\ nextId < MaxOrders)
            => \A request \in AdminRequests : ENABLED PostOrder(1, CheckoutItems, request))
    /\ [][/\ \A request \in AdminRequests :
                (pc'[1] = "findProduct" /\ PostOrder(1, CheckoutItems, request))
                   => LET token == getToken(request)
                          v == verifyToken(token)
                      IN IF token # NoCredential /\ v.ok
                         THEN /\ req'[1].userId = ToString(v.payload.userId)
                              /\ req'[1].guestEmail = Undefined
                         ELSE /\ req'[1].userId = Undefined
                              /\ req'[1].guestEmail = ShippingEmail
          /\ \A o \in orders' \ orders :
                o.user = req[1].userId /\ o.guestEmail = req[1].guestEmail
       ]_vars

\* the ledger holds an order of a signed-in caller and a guest order, and a
\* guest order is being created while every credential handed out has
\* expired
C30_Witness ==
    /\ \E o \in orders : o.user # Undefined /\ o.guestEmail = Undefined
    /\ \E o \in orders : o.user = Undefined /\ o.guestEmail = ShippingEmail
    /\ issued # {}
    /\ \A t \in issued : t.ttl = 0
    /\ pc[1] # "idle"
    /\ req[1].guestEmail = ShippingEmail

\* C4: a check with a verifying credential that embeds role admin is
\* rejected whenever the identity's email is not on the allow-list, even
\* though the stored role still says admin.
C4_RemovedFromAllowListIsRejected ==
    (/\ GateVerified
     /\ GateToken.payload.role = "admin"
     /\ GateToken.payload.email \notin allowedAdminEmails)
        => gate.status = 403 /\ ~gate.next

\* the store answers, the credential verifies and embeds admin, the stored
\* role is admin, the email is off the list, and the gate said 403
C4_Witness ==
    /\ GateVerified
    /\ dbUp
    /\ GateToken.payload.role = "admin"
    /\ GateSubject # NoDocument
    /\ GateSubject.role = "admin"
    /\ GateSubject.email \notin allowedAdminEmails
    /\ gate.status = 403

\* C5: the gate admits only if the credential verifies, the identity of its
\* subject id exists with stored role admin, and that identity's email is on
\* the current allow-list.
C5_AdmitsOnlyLiveAdmins ==
    (gate # NoGate /\ gate.next)
        => /\ GateVerified
           /\ \E u \in users : /\ u.id = GateToken.payload.userId
                               /\ u.role = "admin"
                               /\ u.email \in allowedAdminEmails

\* the gate has admitted a request
C5_Witness == gate # NoGate /\ gate.next /\ gate.status = 200

\* C6: the decision does not depend on the embedded role: an identity whose
\* stored role is admin and whose email is on the allow-list is admitted
\* whatever role its verifying credential embeds.
C6_DecisionIgnoresEmbeddedRole ==
    (/\ GateVerified
     /\ dbUp
     /\ \E u \in users : /\ u.id = GateToken.payload.userId
                         /\ u.role = "admin"
                         /\ u.email \in allowedAdminEmails)
        => gate.next

\* C7: when the store lookup of the re-check fails, the request is rejected
\* as Forbidden and the protected handler does not run.
C7_StoreFailureIsForbidden ==
    (/\ GateVerified
     /\ GateToken.payload.role = "admin"
     /\ ~dbUp)
        => gate.status = 403 /\ ~gate.next

\* the store is down during the check of a credential that would have been
\* admitted otherwise
C7_Witness ==
    /\ GateVerified
    /\ GateToken.payload.role = "admin"
    /\ ~dbUp
    /\ \E u \in users : /\ u.id = GateToken.payload.userId
                        /\ u.role = "admin"
                        /\ u.email \in allowedAdminEmails
    /\ gate.status = 403

\* C8: a missing, malformed, badly signed or expired credential is answered
\* 401; 403 is answered only when the credential itself is valid.
C8_InvalidCredentialIsUnauthorized ==
    gate # NoGate
        => /\ ~GateVerified => gate.status = 401
           /\ gate.status = 403 => GateVerified

====
